---- MODULE Spec2Model ----
(***************************************************************************)
(* servicepytan/auth.py: resolution of the connection config               *)
(* (servicepytan_connect) and the token fetch / header assembly            *)
(* (request_auth_token, get_auth_token, get_auth_headers).                 *)
(*                                                                         *)
(* Python values are modelled as TLA+ strings; Python's None is the        *)
(* reserved string None below, which no input string equals.  A Python     *)
(* dict is a function whose DOMAIN is the set of keys present.             *)
(***************************************************************************)
EXTENDS Integers, FiniteSets, Sequences, TLC

\* ---------------------------------------------------------------- bounds
\* Total number of entries present in the config file, the process
\* environment and the .env file together.
MaxEntries == 1

\* Total number of get_auth_headers invocations.
MaxCalls == 3

\* ------------------------------------------------------- Python helpers
None == "<None>"

\* Python truthiness of a str-or-None value.
Truthy(v) == v # None /\ v # ""

\* dict.get(key, default)
DictGet(d, key, default) == IF key \in DOMAIN d THEN d[key] ELSE default

\* d[key] = value
SetItem(d, key, value) ==
    [k \in (DOMAIN d) \cup {key} |-> IF k = key THEN value ELSE d[k]]

EmptyDict == [k \in {} |-> None]

\* The text an f-string puts for a str-or-None value.
PyStr(v) == IF v = None THEN "None" ELSE v

\* ------------------------------------------------------- ApiEnvironment
PRODUCTION == "production"
INTEGRATION == "integration"

get_auth_root_url(env) ==
    IF env = PRODUCTION
    THEN "https://auth.servicetitan.io"
    ELSE "https://auth-integration.servicetitan.io"

\* Mutant: an unrecognized selector falls back to production.
get_api_root_url_ProdDefault(env) ==
    IF env # INTEGRATION
    THEN "https://api.servicetitan.io"
    ELSE "https://api-integration.servicetitan.io"

get_api_root_url(env) ==
    IF env = PRODUCTION
    THEN "https://api.servicetitan.io"
    ELSE "https://api-integration.servicetitan.io"

AUTH_VARIABLES ==
    << "SERVICETITAN_APP_KEY",
       "SERVICETITAN_TENANT_ID",
       "SERVICETITAN_CLIENT_ID",
       "SERVICETITAN_CLIENT_SECRET",
       "SERVICETITAN_APP_ID",
       "SERVICETITAN_TIMEZONE",
       "SERVICETITAN_API_ENVIRONMENT" >>

AuthVarSet == {AUTH_VARIABLES[i] : i \in 1..Len(AUTH_VARIABLES)}

\* ------------------------------------------------ servicepytan_connect
\* The dict literal built from the arguments before any branch is taken.
InitialConfig(args) ==
    ("SERVICETITAN_APP_KEY" :> args.app_key)
    @@ ("SERVICETITAN_TENANT_ID" :> args.tenant_id)
    @@ ("SERVICETITAN_CLIENT_ID" :> args.client_id)
    @@ ("SERVICETITAN_CLIENT_SECRET" :> args.client_secret)
    @@ ("SERVICETITAN_APP_ID" :> args.app_id)
    @@ ("SERVICETITAN_TIMEZONE" :> args.timezone)
    @@ ("SERVICETITAN_API_ENVIRONMENT" :> args.api_environment)
    @@ ("auth_root" :> get_auth_root_url(args.api_environment))
    @@ ("api_root" :> get_api_root_url(args.api_environment))

\* Mutant: creds.get(var) without the '' default.
FileValue_NoDefault(creds, var) == DictGet(creds, var, None)

\* creds.get(var, '')
FileValue(creds, var) == DictGet(creds, var, "")

\* for var in AUTH_VARIABLES: auth_config_object[var] = creds.get(var, '')
RECURSIVE FillFromFile(_, _, _)
FillFromFile(cfg, creds, i) ==
    IF i > Len(AUTH_VARIABLES)
    THEN cfg
    ELSE FillFromFile(
             SetItem(cfg, AUTH_VARIABLES[i], FileValue(creds, AUTH_VARIABLES[i])),
             creds, i + 1)

\* Mutant: the value of os.environ.get(var) stored as it is.
EnvValue_NoDefault(env, var) == DictGet(env, var, None)

\* One iteration of the environment loop: os.environ.get(var), kept when
\* truthy, replaced by '' otherwise.
EnvValue(env, var) ==
    LET auth_var == DictGet(env, var, None)
    IN  IF Truthy(auth_var) THEN auth_var ELSE ""

RECURSIVE FillFromEnv(_, _, _)
FillFromEnv(cfg, env, i) ==
    IF i > Len(AUTH_VARIABLES)
    THEN cfg
    ELSE FillFromEnv(
             SetItem(cfg, AUTH_VARIABLES[i], EnvValue(env, AUTH_VARIABLES[i])),
             env, i + 1)

\* load_dotenv() with its default override=False: a variable of the .env
\* file is put in os.environ only when os.environ does not have it yet.
load_dotenv(env, dotfile) ==
    [k \in (DOMAIN env) \cup (DOMAIN dotfile) |->
        IF k \in DOMAIN env THEN env[k] ELSE dotfile[k]]

\* Mutant: app_id counted among the required arguments.
CoreIncomplete_WithAppId(args) ==
    \/ ~Truthy(args.api_environment)
    \/ ~Truthy(args.app_key)
    \/ ~Truthy(args.tenant_id)
    \/ ~Truthy(args.client_id)
    \/ ~Truthy(args.client_secret)
    \/ ~Truthy(args.app_id)

\* The elif condition: one of the five core arguments is falsy.
CoreIncomplete(args) ==
    \/ ~Truthy(args.api_environment)
    \/ ~Truthy(args.app_key)
    \/ ~Truthy(args.tenant_id)
    \/ ~Truthy(args.client_id)
    \/ ~Truthy(args.client_secret)

\* Mutant: complete explicit arguments win over the config file.
Branch_ExplicitFirst(args) ==
    IF ~CoreIncomplete(args) THEN "explicit"
    ELSE IF Truthy(args.config_file) THEN "file"
    ELSE "env"

\* Which branch of the if / elif / (fall through) the call takes.
Branch(args) ==
    IF Truthy(args.config_file) THEN "file"
    ELSE IF CoreIncomplete(args) THEN "env"
    ELSE "explicit"

\* ------------------------------------------------------------- state
VARIABLES
    args,        \* the arguments of the servicepytan_connect call
    file,        \* the file at the config_file path: status and JSON object
    environ,     \* os.environ
    dotenv,      \* the variables of the .env file load_dotenv() reads
    pc,          \* "ready", "returned" or "raised"
    result,      \* the returned auth_config_object
    raised,      \* the exception that left the call, None when none did
    started,     \* number of get_auth_headers invocations started
    posts,       \* the POST requests sent to the token endpoint, in order
    tpc,         \* per thread: "idle", "invoked", "waiting", "responded"
    inv,         \* per thread: the number of its current invocation
    response,    \* per thread: the response requests.request returned
    outcome      \* per thread: how its last invocation ended

connectVars == <<args, file, environ, dotenv, pc, result, raised>>

tokenVars == <<started, posts, tpc, inv, response, outcome>>

vars == <<args, file, environ, dotenv, pc, result, raised,
          started, posts, tpc, inv, response, outcome>>

\* The threads that call get_auth_headers concurrently.
Threads == {"t1", "t2"}

NoResponse == [status |-> 0, kind |-> "none", access_token |-> ""]

NoOutcome ==
    [kind |-> "none", inv |-> 0, status |-> 0, printed |-> FALSE,
     parsed |-> FALSE, error |-> None, headers |-> EmptyDict]

TokenIdle ==
    /\ started = 0
    /\ posts = <<>>
    /\ tpc = [t \in Threads |-> "idle"]
    /\ inv = [t \in Threads |-> 0]
    /\ response = [t \in Threads |-> NoResponse]
    /\ outcome = [t \in Threads |-> NoOutcome]

\* ------------------------------------------------------------ inputs
ApiEnvironmentArgs == {None, "", PRODUCTION, INTEGRATION, "staging"}

ArgSets ==
    [ api_environment : ApiEnvironmentArgs,
      app_key         : {None, "", "ak"},
      tenant_id       : {None, "ti"},
      client_id       : {None, "ci"},
      client_secret   : {None, "cs"},
      app_id          : {None, "ai"},
      timezone        : {"UTC", "US/Eastern"},
      config_file     : {None, "config.json"} ]

\* A JSON null in the config file is loaded as None.
FileValues(var) ==
    IF var = "SERVICETITAN_API_ENVIRONMENT"
    THEN {"X", None, PRODUCTION}
    ELSE {"X", None}

EnvValues(var) ==
    IF var = "SERVICETITAN_API_ENVIRONMENT" THEN {"", "E", PRODUCTION} ELSE {"", "E"}

DotenvValues(var) == {"D"}

SmallKeySets == {S \in SUBSET AuthVarSet : Cardinality(S) <= MaxEntries}

FileDicts ==
    {d \in UNION {[S -> {"X", None, PRODUCTION}] : S \in SmallKeySets} :
        \A k \in DOMAIN d : d[k] \in FileValues(k)}

EnvDicts ==
    {d \in UNION {[S -> {"", "E", PRODUCTION}] : S \in SmallKeySets} :
        \A k \in DOMAIN d : d[k] \in EnvValues(k)}

DotenvDicts ==
    {d \in UNION {[S -> {"D"}] : S \in SmallKeySets} :
        \A k \in DOMAIN d : d[k] \in DotenvValues(k)}

Files ==
    {[status |-> "ok", creds |-> d] : d \in FileDicts}
    \cup {[status |-> "missing", creds |-> EmptyDict],
          [status |-> "invalid", creds |-> EmptyDict]}

\* The file, the environment and the .env file the call can meet.
Worlds ==
    {w \in Files \X EnvDicts \X DotenvDicts :
        Cardinality(DOMAIN w[1].creds) + Cardinality(DOMAIN w[2])
            + Cardinality(DOMAIN w[3]) <= MaxEntries}

ConnectInit ==
    /\ \E w \in Worlds :
          /\ file = w[1]
          /\ environ = w[2]
          /\ dotenv = w[3]
    /\ args \in ArgSets
    /\ pc = "ready"
    /\ result = EmptyDict
    /\ raised = None
    /\ TokenIdle

\* ------------------------------------------------------------ the call
\* open(config_file) / json.load(f): the exception raised, None when the
\* file opens and parses.
FileError(f) ==
    IF f.status = "missing" THEN "FileNotFoundError"
    ELSE IF f.status = "invalid" THEN "JSONDecodeError"
    ELSE None

servicepytan_connect ==
    /\ pc = "ready"
    /\ LET branch == Branch(args)
           cfg == InitialConfig(args)
       IN  IF branch = "file"
           THEN /\ environ' = environ
                /\ IF FileError(file) # None
                   THEN /\ pc' = "raised"
                        /\ raised' = FileError(file)
                        /\ result' = result
                   ELSE /\ pc' = "returned"
                        /\ raised' = None
                        /\ result' = FillFromFile(cfg, file.creds, 1)
           ELSE IF branch = "env"
           THEN /\ environ' = load_dotenv(environ, dotenv)
                /\ pc' = "returned"
                /\ raised' = None
                /\ result' = FillFromEnv(cfg, environ', 1)
           ELSE /\ environ' = environ
                /\ pc' = "returned"
                /\ raised' = None
                /\ result' = cfg
    /\ UNCHANGED <<args, file, dotenv>>
    /\ UNCHANGED tokenVars

ConnectNext == servicepytan_connect

ConnectSpec == ConnectInit /\ [][ConnectNext]_vars

\* ------------------------------------------------ request_auth_token
requests_codes_ok == 200

\* url = f"{auth_root_url}/connect/token"
TokenUrl(auth_root_url) == PyStr(auth_root_url) \o "/connect/token"

\* payload = f"grant_type=client_credentials&client_id=...&client_secret=..."
TokenPayload(client_id, client_secret) ==
    "grant_type=client_credentials&client_id=" \o PyStr(client_id)
        \o "&client_secret=" \o PyStr(client_secret)

\* The arguments of requests.request(...).
TokenRequest(auth_root_url, client_id, client_secret) ==
    [ method  |-> "POST",
      url     |-> TokenUrl(auth_root_url),
      data    |-> TokenPayload(client_id, client_secret),
      headers |-> ("Content-Type" :> "application/x-www-form-urlencoded"),
      params  |-> ("Content-Type" :> "application/x-www-form-urlencoded") ]

\* get_auth_token(conn) reads the client id and secret and the auth root
\* from conn and hands them to request_auth_token.
get_auth_token_request(conn) ==
    TokenRequest(conn["auth_root"], conn["SERVICETITAN_CLIENT_ID"],
                 conn["SERVICETITAN_CLIENT_SECRET"])

\* Mutant: a token fetched earlier is reused, no request is sent.
SendPost_Cached(sent, n, req) ==
    IF sent # <<>> THEN sent ELSE Append(sent, [inv |-> n, request |-> req])

\* requests.request sends one request; the POSTs sent so far grow by it.
SendPost(sent, n, req) == Append(sent, [inv |-> n, request |-> req])

\* Response.raise_for_status(): HTTPError for 4xx and 5xx, nothing else.
raise_for_status(status) ==
    IF 400 <= status /\ status < 600 THEN "HTTPError" ELSE None

\* What request_auth_token and the ["access_token"] lookup of
\* get_auth_token do with a response: the diagnostic printed, whether
\* json.loads was reached, the exception raised, the token returned.
HandleResponse(resp) ==
    LET printed == resp.status # requests_codes_ok
        http_error == IF printed THEN raise_for_status(resp.status) ELSE None
    IN  IF http_error # None
        THEN [printed |-> printed, parsed |-> FALSE, error |-> http_error, token |-> ""]
        ELSE IF resp.kind = "text"
        THEN [printed |-> printed, parsed |-> TRUE, error |-> "JSONDecodeError", token |-> ""]
        ELSE IF resp.kind = "json"
        THEN [printed |-> printed, parsed |-> TRUE, error |-> "KeyError", token |-> ""]
        ELSE [printed |-> printed, parsed |-> TRUE, error |-> None,
              token |-> resp.access_token]

\* Mutant: the token sent as a Bearer credential.
AuthHeaders_Bearer(conn, token) ==
    ("Authorization" :> ("Bearer " \o token))
    @@ ("ST-App-Key" :> conn["SERVICETITAN_APP_KEY"])

\* The dict literal get_auth_headers returns.
AuthHeaders(conn, token) ==
    ("Authorization" :> token) @@ ("ST-App-Key" :> conn["SERVICETITAN_APP_KEY"])

\* ------------------------------------------------ the token endpoint
Statuses == {200, 201, 304, 401, 500}

\* "token": a JSON object with access_token; "json": a JSON object
\* without it; "text": a body that is not JSON.
BodyKinds == {"token", "json", "text"}

\* The token the endpoint issues in answer to the n-th POST it receives.
IssuedToken(n) == "abc" \o ToString(n)

\* Position in posts of the POST that invocation n sent.
PostIndex(n) == CHOOSE i \in 1..Len(posts) : posts[i].inv = n

\* ------------------------------------------------ get_auth_headers
\* A thread enters get_auth_headers(conn) with the resolved config.
Invoke(t) ==
    /\ pc = "returned"
    /\ tpc[t] = "idle"
    /\ started < MaxCalls
    /\ started' = started + 1
    /\ inv' = [inv EXCEPT ![t] = started + 1]
    /\ tpc' = [tpc EXCEPT ![t] = "invoked"]
    /\ response' = [response EXCEPT ![t] = NoResponse]
    /\ outcome' = [outcome EXCEPT ![t] = NoOutcome]
    /\ UNCHANGED <<posts>>
    /\ UNCHANGED connectVars

\* get_auth_token -> request_auth_token -> requests.request("POST", ...)
Post(t) ==
    /\ tpc[t] = "invoked"
    /\ posts' = SendPost(posts, inv[t], get_auth_token_request(result))
    /\ tpc' = [tpc EXCEPT ![t] = "waiting"]
    /\ UNCHANGED <<started, inv, response, outcome>>
    /\ UNCHANGED connectVars

\* The endpoint answers the thread's POST.
Respond(t) ==
    /\ tpc[t] = "waiting"
    /\ \E status \in Statuses, kind \in BodyKinds :
          response' = [response EXCEPT ![t] =
              [ status |-> status, kind |-> kind,
                access_token |-> IF kind = "token"
                                 THEN IssuedToken(PostIndex(inv[t]))
                                 ELSE "" ]]
    /\ tpc' = [tpc EXCEPT ![t] = "responded"]
    /\ UNCHANGED <<started, posts, inv, outcome>>
    /\ UNCHANGED connectVars

\* requests.request raises instead of returning a response.
NetworkError(t) ==
    /\ tpc[t] = "waiting"
    /\ outcome' = [outcome EXCEPT ![t] =
          [NoOutcome EXCEPT !.kind = "raised", !.inv = inv[t],
                            !.error = "ConnectionError"]]
    /\ tpc' = [tpc EXCEPT ![t] = "idle"]
    /\ UNCHANGED <<started, posts, inv, response>>
    /\ UNCHANGED connectVars

\* The rest of request_auth_token, get_auth_token and get_auth_headers
\* once requests.request has returned.
Finish(t) ==
    /\ tpc[t] = "responded"
    /\ LET h == HandleResponse(response[t])
       IN  outcome' = [outcome EXCEPT ![t] =
              [ kind    |-> IF h.error = None THEN "returned" ELSE "raised",
                inv     |-> inv[t],
                status  |-> response[t].status,
                printed |-> h.printed,
                parsed  |-> h.parsed,
                error   |-> h.error,
                headers |-> IF h.error = None
                            THEN AuthHeaders(result, h.token)
                            ELSE EmptyDict ]]
    /\ tpc' = [tpc EXCEPT ![t] = "idle"]
    /\ UNCHANGED <<started, posts, inv, response>>
    /\ UNCHANGED connectVars

TokenArgs ==
    {a \in ArgSets :
        /\ a.config_file = None
        /\ a.app_key = "ak"
        /\ a.tenant_id = "ti"
        /\ a.client_id = "ci"
        /\ a.client_secret = "cs"
        /\ a.app_id = None
        /\ a.timezone = "UTC"}

TokenInit ==
    /\ args \in TokenArgs
    /\ file = [status |-> "missing", creds |-> EmptyDict]
    /\ environ = EmptyDict
    /\ dotenv = EmptyDict
    /\ pc = "ready"
    /\ result = EmptyDict
    /\ raised = None
    /\ TokenIdle

TokenNext ==
    \/ servicepytan_connect
    \/ \E t \in Threads : Invoke(t)
    \/ \E t \in Threads : Post(t)
    \/ \E t \in Threads : Respond(t)
    \/ \E t \in Threads : NetworkError(t)
    \/ \E t \in Threads : Finish(t)

TokenSpec == TokenInit /\ [][TokenNext]_vars

\* ==================================================================
\* Properties
\* ==================================================================
ConfigKeys == AuthVarSet \cup {"auth_root", "api_root"}

\* The explicit argument that corresponds to a credential field.
ArgValue(var) ==
    CASE var = "SERVICETITAN_APP_KEY" -> args.app_key
      [] var = "SERVICETITAN_TENANT_ID" -> args.tenant_id
      [] var = "SERVICETITAN_CLIENT_ID" -> args.client_id
      [] var = "SERVICETITAN_CLIENT_SECRET" -> args.client_secret
      [] var = "SERVICETITAN_APP_ID" -> args.app_id
      [] var = "SERVICETITAN_TIMEZONE" -> args.timezone
      [] var = "SERVICETITAN_API_ENVIRONMENT" -> args.api_environment

FileGiven == args.config_file # None /\ args.config_file # ""

AllCoreGiven ==
    \A v \in {args.api_environment, args.app_key, args.tenant_id,
              args.client_id, args.client_secret} : v # None /\ v # ""

\* The environment variable when set to a non-empty value, '' otherwise
\* (os.environ as the call leaves it).
EnvOrEmpty(var) ==
    IF var \in DOMAIN environ /\ environ[var] # "" THEN environ[var] ELSE ""

ProdAuth == "https://auth.servicetitan.io"
ProdApi == "https://api.servicetitan.io"
IntAuth == "https://auth-integration.servicetitan.io"
IntApi == "https://api-integration.servicetitan.io"

\* C1: every returned config has all nine keys, no value is None, and a
\* credential field that no source supplied (argument omitted, not in the
\* file, not in the environment) holds the empty string.
C1_AllKeysNeverNone ==
    pc = "returned" =>
        /\ DOMAIN result = ConfigKeys
        /\ \A k \in ConfigKeys : result[k] # None
        /\ \A var \in AuthVarSet :
              ( /\ ArgValue(var) = None
                /\ var \notin DOMAIN file.creds
                /\ var \notin DOMAIN environ )
              => result[var] = ""

\* C2 as stated: a non-empty explicit argument is the value of its field
\* whatever the config file or the environment hold, and a config-file
\* value is preferred to the environment variable.
C2_ExplicitOverFileOverEnv ==
    pc = "returned" =>
        \A var \in AuthVarSet :
            /\ Truthy(ArgValue(var)) => result[var] = ArgValue(var)
            /\ ( /\ ~Truthy(ArgValue(var))
                 /\ FileGiven
                 /\ var \in DOMAIN file.creds )
               => result[var] = file.creds[var]

\* C2 amended: the precedence is config file > complete explicit arguments
\* > environment.  With a config file every credential field is the file's
\* value ('' when the file lacks the key); without one the explicit
\* arguments are used only when all five core arguments are non-empty, and
\* otherwise every credential field is the environment variable ('' when
\* unset or empty).
C2_FileOverExplicitOverEnv ==
    pc = "returned" =>
        \A var \in AuthVarSet :
            result[var] =
                IF FileGiven
                THEN (IF var \in DOMAIN file.creds THEN file.creds[var] ELSE "")
                ELSE IF AllCoreGiven THEN ArgValue(var)
                ELSE EnvOrEmpty(var)

\* A config file and a non-empty explicit argument give different values
\* for the same field, and the file's value is the one returned.
C2_Witness ==
    /\ pc = "returned"
    /\ FileGiven
    /\ AllCoreGiven
    /\ \E var \in DOMAIN file.creds :
          /\ Truthy(ArgValue(var))
          /\ file.creds[var] # ArgValue(var)
          /\ result[var] = file.creds[var]

OnlyAppKeyX ==
    /\ pc = "returned"
    /\ FileGiven
    /\ file.creds = ("SERVICETITAN_APP_KEY" :> "X")

C4_ExplicitVerbatim ==
    (pc = "returned" /\ ~FileGiven /\ AllCoreGiven) =>
        /\ result["SERVICETITAN_API_ENVIRONMENT"] = args.api_environment
        /\ result["SERVICETITAN_APP_KEY"] = args.app_key
        /\ result["SERVICETITAN_TENANT_ID"] = args.tenant_id
        /\ result["SERVICETITAN_CLIENT_ID"] = args.client_id
        /\ result["SERVICETITAN_CLIENT_SECRET"] = args.client_secret
        /\ result["SERVICETITAN_APP_ID"] = args.app_id
        /\ result["SERVICETITAN_TIMEZONE"] = args.timezone
        /\ result["auth_root"] =
              (IF args.api_environment = "production" THEN ProdAuth ELSE IntAuth)
        /\ result["api_root"] =
              (IF args.api_environment = "production" THEN ProdApi ELSE IntApi)

\* All five core arguments are given, app_id is omitted, and the
\* environment or the .env file holds a value for a credential field.
C4_Witness ==
    /\ pc = "returned"
    /\ ~FileGiven
    /\ AllCoreGiven
    /\ args.app_id = None
    /\ \E var \in (DOMAIN environ) \cup (DOMAIN dotenv) :
          result[var] \notin {"E", "D"}

\* C5: without a config file and with a core argument absent or empty,
\* each of the seven credential fields is the environment variable of its
\* name when that is set and non-empty, and '' otherwise, also for fields
\* whose argument was given and for timezone.
C5_EnvBranch ==
    (pc = "returned" /\ ~FileGiven /\ ~AllCoreGiven) =>
        \A var \in AuthVarSet : result[var] = EnvOrEmpty(var)

\* A given app key and the default timezone are dropped for '' while a
\* field whose variable is set takes the variable's value.
C5_Witness ==
    /\ pc = "returned"
    /\ ~FileGiven
    /\ ~AllCoreGiven
    /\ args.app_key = "ak"
    /\ result["SERVICETITAN_APP_KEY"] = ""
    /\ result["SERVICETITAN_TIMEZONE"] = ""
    /\ \E var \in DOMAIN environ : environ[var] # "" /\ result[var] = environ[var]

\* C6: the selector "production" gives the production pair of URLs, every
\* other selector (integration, '', None, unrecognized) the integration
\* pair, and the two URLs are always of the same pair.
C6_UrlDerivation ==
    pc = "returned" =>
        /\ args.api_environment = "production"
              => (result["auth_root"] = ProdAuth /\ result["api_root"] = ProdApi)
        /\ args.api_environment # "production"
              => (result["auth_root"] = IntAuth /\ result["api_root"] = IntApi)
        /\ <<result["auth_root"], result["api_root"]>>
              \in {<<ProdAuth, ProdApi>>, <<IntAuth, IntApi>>}

\* An unrecognized selector resolved to the integration pair.
C6_Witness ==
    /\ pc = "returned"
    /\ args.api_environment = "staging"
    /\ result["auth_root"] = IntAuth
    /\ result["api_root"] = IntApi

\* C10: in every returned config auth_root and api_root are the pair that
\* the selector stored in that config under SERVICETITAN_API_ENVIRONMENT
\* maps to.
C10_UrlsMatchStoredSelector ==
    pc = "returned" =>
        IF result["SERVICETITAN_API_ENVIRONMENT"] = "production"
        THEN result["auth_root"] = ProdAuth /\ result["api_root"] = ProdApi
        ELSE result["auth_root"] = IntAuth /\ result["api_root"] = IntApi

\* ------------------------------------------------------------ tokens
\* Thread t has finished an invocation that got a response.
Answered(t) ==
    /\ tpc[t] = "idle"
    /\ outcome[t].kind # "none"
    /\ outcome[t].inv = inv[t]
    /\ response[t].kind # "none"

\* C7: for every response status outside 2xx the invocation prints the
\* diagnostic and raises an HTTP-status error: the body is never parsed
\* and no token or headers are returned.
C7_NonSuccessRaises ==
    \A t \in Threads :
        (Answered(t) /\ response[t].status \notin 200..299) =>
            /\ outcome[t].printed
            /\ outcome[t].kind = "raised"
            /\ outcome[t].error = "HTTPError"
            /\ ~outcome[t].parsed
            /\ outcome[t].headers = EmptyDict

\* C8: a 200 response whose JSON body has access_token T makes
\* get_auth_headers return exactly Authorization = T (no prefix) and
\* ST-App-Key = the config's app key, and the POST went to
\* {auth_root}/connect/token with the config's client id and secret and
\* grant_type=client_credentials.
C8_HeadersOnSuccess ==
    \A t \in Threads :
        (Answered(t) /\ response[t].status = 200 /\ response[t].kind = "token") =>
            /\ outcome[t].kind = "returned"
            /\ DOMAIN outcome[t].headers = {"Authorization", "ST-App-Key"}
            /\ outcome[t].headers["Authorization"] = response[t].access_token
            /\ outcome[t].headers["ST-App-Key"] = result["SERVICETITAN_APP_KEY"]
            /\ \E i \in 1..Len(posts) :
                  /\ posts[i].inv = inv[t]
                  /\ posts[i].request.method = "POST"
                  /\ posts[i].request.url = result["auth_root"] \o "/connect/token"
                  /\ posts[i].request.data =
                        "grant_type=client_credentials&client_id="
                            \o result["SERVICETITAN_CLIENT_ID"]
                            \o "&client_secret="
                            \o result["SERVICETITAN_CLIENT_SECRET"]

\* A thread got status 200 with a token and returned its headers.
C8_Witness ==
    \E t \in Threads :
        /\ Answered(t)
        /\ response[t].status = 200
        /\ response[t].kind = "token"
        /\ result["SERVICETITAN_APP_KEY"] = "ak"
        /\ outcome[t].headers["Authorization"] = "abc1"

PostsOf(n) == {i \in 1..Len(posts) : posts[i].inv = n}

\* C9: every invocation sends exactly one POST, whether it succeeds or
\* fails and however the threads interleave: an invocation that has
\* reached the request has one POST and never a second, with no
\* invocation in flight the POSTs are as many as the invocations started,
\* and returned headers carry the token issued in answer to the
\* invocation's own POST.
C9_OnePostPerInvocation ==
    /\ \A n \in 1..started :
          Cardinality(PostsOf(n)) =
              IF \E t \in Threads : tpc[t] = "invoked" /\ inv[t] = n THEN 0 ELSE 1
    /\ Len(posts) <= started
    /\ (\A t \in Threads : tpc[t] = "idle") => Len(posts) = started
    /\ \A t \in Threads :
          outcome[t].kind = "returned" =>
              \E i \in PostsOf(outcome[t].inv) :
                  outcome[t].headers["Authorization"] = IssuedToken(i)

\* Two invocations interleaved (the second one started sent its POST
\* first); one was refused with 401, the other returned its own token.
C9_Witness ==
    \E t1, t2 \in Threads :
        /\ tpc[t1] = "idle" /\ tpc[t2] = "idle"
        /\ outcome[t1].inv = 1
        /\ outcome[t1].kind = "raised"
        /\ outcome[t1].status = 401
        /\ outcome[t2].inv = 2
        /\ outcome[t2].kind = "returned"
        /\ PostsOf(2) = {1}
        /\ outcome[t2].headers["Authorization"] = "abc1"
        /\ Len(posts) = 2
        /\ started = 2

====
